---- MODULE Spec2Model ----
(***************************************************************************)
(* Model of the WebLN adapter (webln/src/lib.rs): the typed facade over    *)
(* the `window.webln` provider object, its request encoder, its response   *)
(* decoders and its error classifier.                                      *)
(*                                                                         *)
(* Strings are TLA+ strings; JavaScript values are records tagged by       *)
(* `kind`; Rust `Result` and `Option` values are records tagged by `ok`    *)
(* and `some`.                                                             *)
(***************************************************************************)
EXTENDS Integers, Sequences, FiniteSets, TLC

VARIABLES
    window,      \* the global environment seen by web_sys::window()
    webln,       \* the outcome of WebLN::new(): "unconstructed", Ok(handle) or Err(e)
    provider,    \* the properties of the object behind `window.webln`, by method name
    calls,       \* per caller: the operation it runs and how far it got
    promises,    \* the pending results handed out by the provider, by promise id
    hostCalls,   \* the log of host calls the provider received
    gim_src,     \* capability round trip: the value the round trip starts from
    gim_mid,     \* capability round trip: after the first conversion
    gim_back,    \* capability round trip: after the second conversion
    args,        \* request encoder: the RequestInvoiceArgs being built
    encoded      \* request encoder: the object produced by the encoder

dispVars == <<window, webln, provider, calls, promises, hostCalls>>
gimVars == <<gim_src, gim_mid, gim_back>>
encVars == <<args, encoded>>
vars == <<window, webln, provider, calls, promises, hostCalls,
          gim_src, gim_mid, gim_back, args, encoded>>

----------------------------------------------------------------------------
(* Bounds *)

\* amounts of up to MaxDigits + 1 decimal digits are encoded
MaxDigits == 2

\* a getInfo result lists up to MaxMethods methods
MaxMethods == 3

\* a multi-payment call and its result list up to MaxEntries invoices
MaxEntries == 2

----------------------------------------------------------------------------
(* Rust Result and Option *)

Ok(v) == [ok |-> TRUE, val |-> v]
Err(e) == [ok |-> FALSE, err |-> e]
None == [some |-> FALSE]
Some(v) == [some |-> TRUE, val |-> v]
NotYet == [pending |-> TRUE]

----------------------------------------------------------------------------
(* JavaScript values *)

Undefined == [kind |-> "undefined"]
Null == [kind |-> "null"]
JsBool(b) == [kind |-> "boolean", b |-> b]
JsNumber(n) == [kind |-> "number", n |-> n]
JsString(s) == [kind |-> "string", s |-> s]
JsFunction == [kind |-> "function"]
JsArray(elems) == [kind |-> "array", elems |-> elems]
JsObject(props) == [kind |-> "object", props |-> props]
\* a property slot whose getter throws when read
ThrowingGetter == [kind |-> "throwing_getter"]
NoProps == [k \in {} |-> Undefined]

\* JsCast::dyn_into::<Object>: `instanceof Object`
IsInstanceOfObject(v) == v.kind \in {"object", "array", "function"}
\* JsCast::dyn_into::<Array>: Array.isArray
IsArray(v) == v.kind = "array"
\* JsCast::dyn_into::<Function>: typeof v === "function"
IsFunction(v) == v.kind = "function"
is_object_NonNull(v) == v.kind \notin {"undefined", "null"}

\* JsValue::is_object: typeof v === "object" && v !== null
is_object(v) == v.kind \in {"object", "array"}

as_string(v) == IF v.kind = "string" THEN Some(v.s) ELSE None
as_f64(v) == IF v.kind = "number" THEN Some(v.n) ELSE None
as_bool(v) == IF v.kind = "boolean" THEN Some(v.b) ELSE None

\* Reflect::get on an object-like target: Err when the read throws,
\* Ok(undefined) when the property does not exist
Reflect_get(target, key) ==
    IF target.kind = "object" /\ key \in DOMAIN target.props
    THEN IF target.props[key] = ThrowingGetter
         THEN Err(JsString("TypeError"))
         ELSE Ok(target.props[key])
    ELSE Ok(Undefined)

----------------------------------------------------------------------------
(* Method names *)

IS_ENABLED == "isEnabled"
ENABLE == "enable"
GET_INFO == "getInfo"
KEYSEND == "keysend"
MAKE_INVOICE == "makeInvoice"
SEND_PAYMENT == "sendPayment"
SEND_MULTI_PAYMENT == "sendMultiPayment"
SEND_PAYMENT_ASYNC == "sendPaymentAsync"
SIGN_MESSAGE == "signMessage"
VERIFY_MESSAGE == "verifyMessage"
REQUEST == "request"
LNURL == "lnurl"
ON == "on"
OFF == "off"
GET_BALANCE == "getBalance"

----------------------------------------------------------------------------
(* Error *)

Wasm(s) == [kind |-> "Wasm", msg |-> s]
NoGlobalWindowObject == [kind |-> "NoGlobalWindowObject"]
NamespaceNotFound(n) == [kind |-> "NamespaceNotFound", name |-> n]
ObjectKeyNotFound(k) == [kind |-> "ObjectKeyNotFound", key |-> k]
TypeMismatch(s) == [kind |-> "TypeMismatch", msg |-> s]
UserRejected == [kind |-> "UserRejected"]
EmptyInvoice == [kind |-> "EmptyInvoice"]
SomethingGoneWrong == [kind |-> "SomethingGoneWrong"]

\* str::contains
Contains(hay, needle) ==
    \E i \in 1..(Len(hay) - Len(needle) + 1) :
        SubSeq(hay, i, i + Len(needle) - 1) = needle

\* format!("{e:?}") of a JsValue: "JsValue(" debug-string ")"
DebugFormat(e) ==
    "JsValue(" \o
    (CASE e.kind = "string" -> "\"" \o e.s \o "\""
       [] e.kind = "error" -> e.name \o ": " \o e.message
       [] e.kind = "undefined" -> "undefined"
       [] e.kind = "null" -> "null"
       [] OTHER -> "Object") \o ")"

From_JsValue_ExactMatch(e) ==
    IF DebugFormat(e) = "User rejected" THEN UserRejected ELSE Wasm(DebugFormat(e))

\* impl From<JsValue> for Error
From_JsValue(e) ==
    LET error == DebugFormat(e)
    IN IF Contains(error, "User rejected") THEN UserRejected ELSE Wasm(error)

get_value_by_key(obj, key) ==
    LET r == Reflect_get(obj, key)
    IN IF r.ok THEN r ELSE Err(ObjectKeyNotFound(key))

----------------------------------------------------------------------------
(* GetInfoMethod *)

IsEnabled == [variant |-> "IsEnabled"]
Enable == [variant |-> "Enable"]
GetInfo == [variant |-> "GetInfo"]
Keysend == [variant |-> "Keysend"]
MakeInvoice == [variant |-> "MakeInvoice"]
SendPayment == [variant |-> "SendPayment"]
SendMultiPayment == [variant |-> "SendMultiPayment"]
SendPaymentAsync == [variant |-> "SendPaymentAsync"]
SignMessage == [variant |-> "SignMessage"]
VerifyMessage == [variant |-> "VerifyMessage"]
Request == [variant |-> "Request"]
Lnurl == [variant |-> "Lnurl"]
On == [variant |-> "On"]
Off == [variant |-> "Off"]
GetBalance == [variant |-> "GetBalance"]
Other(s) == [variant |-> "Other", s |-> s]

KnownMethods ==
    {IsEnabled, Enable, GetInfo, Keysend, MakeInvoice, SendPayment,
     SendMultiPayment, SendPaymentAsync, SignMessage, VerifyMessage,
     Request, Lnurl, On, Off, GetBalance}

GetInfoMethod_from_NoGetBalance(method) ==
    CASE method = IS_ENABLED -> IsEnabled
      [] method = ENABLE -> Enable
      [] method = GET_INFO -> GetInfo
      [] method = KEYSEND -> Keysend
      [] method = MAKE_INVOICE -> MakeInvoice
      [] method = SEND_PAYMENT -> SendPayment
      [] method = SEND_MULTI_PAYMENT -> SendMultiPayment
      [] method = SEND_PAYMENT_ASYNC -> SendPaymentAsync
      [] method = SIGN_MESSAGE -> SignMessage
      [] method = VERIFY_MESSAGE -> VerifyMessage
      [] method = REQUEST -> Request
      [] method = LNURL -> Lnurl
      [] method = ON -> On
      [] method = OFF -> Off
      [] OTHER -> Other(method)

\* impl From<&str> for GetInfoMethod
GetInfoMethod_from(method) ==
    CASE method = IS_ENABLED -> IsEnabled
      [] method = ENABLE -> Enable
      [] method = GET_INFO -> GetInfo
      [] method = KEYSEND -> Keysend
      [] method = MAKE_INVOICE -> MakeInvoice
      [] method = SEND_PAYMENT -> SendPayment
      [] method = SEND_MULTI_PAYMENT -> SendMultiPayment
      [] method = SEND_PAYMENT_ASYNC -> SendPaymentAsync
      [] method = SIGN_MESSAGE -> SignMessage
      [] method = VERIFY_MESSAGE -> VerifyMessage
      [] method = REQUEST -> Request
      [] method = LNURL -> Lnurl
      [] method = ON -> On
      [] method = OFF -> Off
      [] method = GET_BALANCE -> GetBalance
      [] OTHER -> Other(method)

\* impl fmt::Display for GetInfoMethod
GetInfoMethod_to_string(m) ==
    CASE m = IsEnabled -> IS_ENABLED
      [] m = Enable -> ENABLE
      [] m = GetInfo -> GET_INFO
      [] m = Keysend -> KEYSEND
      [] m = MakeInvoice -> MAKE_INVOICE
      [] m = SendPayment -> SEND_PAYMENT
      [] m = SendMultiPayment -> SEND_MULTI_PAYMENT
      [] m = SendPaymentAsync -> SEND_PAYMENT_ASYNC
      [] m = SignMessage -> SIGN_MESSAGE
      [] m = VerifyMessage -> VERIFY_MESSAGE
      [] m = Request -> REQUEST
      [] m = Lnurl -> LNURL
      [] m = On -> ON
      [] m = Off -> OFF
      [] m = GetBalance -> GET_BALANCE
      [] OTHER -> m.s

----------------------------------------------------------------------------
(* Response decoders (trait Deserialize) *)

\* an exception thrown by a JavaScript import that is not declared `catch`:
\* it unwinds through the decoder and no Result is produced
UncaughtJsException == [kind |-> "UncaughtJsException"]

required_string_or_default(obj, key, msg) ==
    LET r == get_value_by_key(obj, key)
    IN IF ~r.ok THEN Ok("")
       ELSE LET s == as_string(r.val)
            IN IF s.some THEN Ok(s.val) ELSE Ok("")

\* `get_value_by_key(obj, key)?.as_string().ok_or_else(|| TypeMismatch(msg))?`
required_string(obj, key, msg) ==
    LET r == get_value_by_key(obj, key)
    IN IF ~r.ok THEN r
       ELSE LET s == as_string(r.val)
            IN IF s.some THEN Ok(s.val) ELSE Err(TypeMismatch(msg))

optional_string_strict(obj, key) ==
    LET r == get_value_by_key(obj, key)
    IN IF ~r.ok THEN r
       ELSE IF r.val.kind \in {"undefined", "string"} THEN Ok(as_string(r.val))
       ELSE Err(TypeMismatch("expected a string"))

\* `get_value_by_key(obj, key)?.as_string()`
optional_string(obj, key) ==
    LET r == get_value_by_key(obj, key)
    IN IF ~r.ok THEN r ELSE Ok(as_string(r.val))

\* impl Deserialize for bool
Deserialize_bool(value) ==
    LET b == as_bool(value)
    IN IF b.some THEN Ok(b.val) ELSE Err(TypeMismatch("expected a bool"))

\* the elements Array::into_iter yields for a value cast to Array without a
\* check: `length` elements read by index; reading `length` of undefined or
\* null throws
ArrayIntoIter(v) ==
    CASE v.kind = "array" -> Ok(v.elems)
      [] v.kind = "string" -> Ok([i \in 1..Len(v.s) |-> JsString(SubSeq(v.s, i, i))])
      [] v.kind \in {"undefined", "null"} -> Err(UncaughtJsException)
      [] OTHER -> Ok(<<>>)

RECURSIVE FilterMapStrings_StopAtNonString(_)
FilterMapStrings_StopAtNonString(elems) ==
    IF elems = <<>> THEN <<>>
    ELSE LET m == as_string(Head(elems))
         IN IF m.some
            THEN <<GetInfoMethod_from(m.val)>> \o FilterMapStrings_StopAtNonString(Tail(elems))
            ELSE <<>>

RECURSIVE FilterMapStrings(_)
\* `.filter_map(|m| m.as_string()).map(|m| GetInfoMethod::from(m.as_str())).collect()`
FilterMapStrings(elems) ==
    IF elems = <<>> THEN <<>>
    ELSE LET m == as_string(Head(elems))
         IN IF m.some
            THEN <<GetInfoMethod_from(m.val)>> \o FilterMapStrings(Tail(elems))
            ELSE FilterMapStrings(Tail(elems))

\* impl Deserialize for GetInfoResponse
Deserialize_GetInfoResponse(value) ==
    IF ~IsInstanceOfObject(value) THEN Err(SomethingGoneWrong)
    ELSE
    LET node_r == get_value_by_key(value, "node")
    IN IF ~node_r.ok THEN node_r
       ELSE IF ~IsInstanceOfObject(node_r.val) THEN Err(SomethingGoneWrong)
       ELSE
       LET node_obj == node_r.val
           alias == optional_string(node_obj, "alias")
           pubkey == optional_string(node_obj, "pubkey")
           color == optional_string(node_obj, "color")
           methods_r == get_value_by_key(value, "methods")
       IN IF ~alias.ok THEN alias
          ELSE IF ~pubkey.ok THEN pubkey
          ELSE IF ~color.ok THEN color
          ELSE IF ~methods_r.ok THEN methods_r
          ELSE LET methods_array == ArrayIntoIter(methods_r.val)
               IN IF ~methods_array.ok THEN methods_array
                  ELSE Ok([node |-> [alias |-> alias.val,
                                     pubkey |-> pubkey.val,
                                     color |-> color.val],
                           methods |-> FilterMapStrings(methods_array.val)])

\* impl Deserialize for SendPaymentResponse
Deserialize_SendPaymentResponse(value) ==
    IF ~IsInstanceOfObject(value) THEN Err(SomethingGoneWrong)
    ELSE LET preimage == required_string(value, "preimage", "expected a string [preimage]")
         IN IF ~preimage.ok THEN preimage
            ELSE Ok([preimage |-> preimage.val])

\* impl Deserialize for SendMultiPaymentError
Deserialize_SendMultiPaymentError(value) ==
    IF ~IsInstanceOfObject(value) THEN Err(SomethingGoneWrong)
    ELSE LET payment_request ==
                 required_string(value, "paymentRequest", "expected a string [paymentRequest]")
             message == required_string(value, "message", "expected a string [message]")
         IN IF ~payment_request.ok THEN payment_request
            ELSE IF ~message.ok THEN message
            ELSE Ok([payment_request |-> payment_request.val, message |-> message.val])

RECURSIVE DeserializeErrors_Skip(_)
DeserializeErrors_Skip(elems) ==
    IF elems = <<>> THEN Ok(<<>>)
    ELSE LET e == Deserialize_SendMultiPaymentError(Head(elems))
             rest == DeserializeErrors_Skip(Tail(elems))
         IN IF ~e.ok THEN rest ELSE Ok(<<e.val>> \o rest.val)

RECURSIVE DeserializeErrors(_)
\* `for error in js_errors.into_iter() { errors.push(SendMultiPaymentError::deserialize(error)?); }`
DeserializeErrors(elems) ==
    IF elems = <<>> THEN Ok(<<>>)
    ELSE LET e == Deserialize_SendMultiPaymentError(Head(elems))
         IN IF ~e.ok THEN e
            ELSE LET rest == DeserializeErrors(Tail(elems))
                 IN IF ~rest.ok THEN rest ELSE Ok(<<e.val>> \o rest.val)

\* impl Deserialize for SendMultiPaymentResponse
Deserialize_SendMultiPaymentResponse(value) ==
    IF ~IsInstanceOfObject(value) THEN Err(SomethingGoneWrong)
    ELSE LET errors_r == get_value_by_key(value, "errors")
         IN IF ~errors_r.ok THEN errors_r
            ELSE IF ~IsArray(errors_r.val) THEN Err(From_JsValue(errors_r.val))
            ELSE LET errors == DeserializeErrors(errors_r.val.elems)
                 IN IF ~errors.ok THEN errors
                    ELSE Ok([payments |-> <<>>, errors |-> errors.val])

\* impl Deserialize for RequestInvoiceResponse
Deserialize_RequestInvoiceResponse(value) ==
    IF ~IsInstanceOfObject(value) THEN Err(SomethingGoneWrong)
    ELSE LET payment_request ==
                 required_string(value, "paymentRequest", "expected a string [paymentRequest]")
         IN IF ~payment_request.ok THEN payment_request
            ELSE Ok([payment_request |-> payment_request.val])

Deserialize_SignMessageResponse_SignatureOnly(value) ==
    IF ~IsInstanceOfObject(value) THEN Err(SomethingGoneWrong)
    ELSE LET signature == required_string(value, "signature", "expected a string [signature]")
         IN IF ~signature.ok THEN signature
            ELSE Ok([message |-> "", signature |-> signature.val])

\* impl Deserialize for SignMessageResponse
Deserialize_SignMessageResponse(value) ==
    IF ~IsInstanceOfObject(value) THEN Err(SomethingGoneWrong)
    ELSE LET message == required_string(value, "message", "expected a string [message]")
             signature == required_string(value, "signature", "expected a string [signature]")
         IN IF ~message.ok THEN message
            ELSE IF ~signature.ok THEN signature
            ELSE Ok([message |-> message.val, signature |-> signature.val])

\* impl Deserialize for BalanceResponse
Deserialize_BalanceResponse(value) ==
    IF ~IsInstanceOfObject(value) THEN Err(SomethingGoneWrong)
    ELSE LET balance_r == get_value_by_key(value, "balance")
         IN IF ~balance_r.ok THEN balance_r
            ELSE LET balance == as_f64(balance_r.val)
                     currency == optional_string(value, "currency")
                 IN IF ~balance.some THEN Err(TypeMismatch("expected a number [balance]"))
                    ELSE IF ~currency.ok THEN currency
                    ELSE Ok([balance |-> balance.val, currency |-> currency.val])

----------------------------------------------------------------------------
(* Request encoder *)

\* u64::to_string: the base-10 digits, most significant first
RECURSIVE u64_to_string(_)
u64_to_string(n) ==
    IF n < 10 THEN SubSeq("0123456789", n + 1, n + 1)
    ELSE u64_to_string(n \div 10) \o SubSeq("0123456789", (n % 10) + 1, (n % 10) + 1)

\* Reflect::set on a plain object: the property is created or overwritten
Reflect_set(obj, key, value) ==
    JsObject([k \in DOMAIN obj.props \cup {key} |->
                 IF k = key THEN value ELSE obj.props[k]])

\* RequestInvoiceArgs::new / Default
RequestInvoiceArgs_new ==
    [amount |-> None, default_amount |-> None, minimum_amount |-> None,
     maximum_amount |-> None, default_memo |-> None]

RequestInvoiceArgs_try_into_Nulls(a) ==
    Ok(JsObject(
        [k \in {"amount", "defaultAmount", "minimumAmount", "maximumAmount", "defaultMemo"} |->
            CASE k = "amount" ->
                   IF a.amount.some THEN JsString(u64_to_string(a.amount.val)) ELSE Null
              [] k = "defaultAmount" ->
                   IF a.default_amount.some
                   THEN JsString(u64_to_string(a.default_amount.val)) ELSE Null
              [] k = "minimumAmount" ->
                   IF a.minimum_amount.some
                   THEN JsString(u64_to_string(a.minimum_amount.val)) ELSE Null
              [] k = "maximumAmount" ->
                   IF a.maximum_amount.some
                   THEN JsString(u64_to_string(a.maximum_amount.val)) ELSE Null
              [] OTHER ->
                   IF a.default_memo.some THEN JsString(a.default_memo.val) ELSE Null]))

\* impl TryFrom<&RequestInvoiceArgs> for Object
RequestInvoiceArgs_try_into(a) ==
    LET obj0 == JsObject(NoProps)
        obj1 == IF a.amount.some
                THEN Reflect_set(obj0, "amount", JsString(u64_to_string(a.amount.val)))
                ELSE obj0
        obj2 == IF a.default_amount.some
                THEN Reflect_set(obj1, "defaultAmount",
                                 JsString(u64_to_string(a.default_amount.val)))
                ELSE obj1
        obj3 == IF a.minimum_amount.some
                THEN Reflect_set(obj2, "minimumAmount",
                                 JsString(u64_to_string(a.minimum_amount.val)))
                ELSE obj2
        obj4 == IF a.maximum_amount.some
                THEN Reflect_set(obj3, "maximumAmount",
                                 JsString(u64_to_string(a.maximum_amount.val)))
                ELSE obj3
        obj5 == IF a.default_memo.some
                THEN Reflect_set(obj4, "defaultMemo", JsString(a.default_memo.val))
                ELSE obj4
    IN Ok(obj5)

----------------------------------------------------------------------------
(* The provider, the values it hands back and the arguments callers pass *)

Callers == {"a", "b"}

Operations ==
    {IS_ENABLED, ENABLE, GET_INFO, KEYSEND, MAKE_INVOICE, SEND_PAYMENT,
     SEND_MULTI_PAYMENT, SEND_PAYMENT_ASYNC, SIGN_MESSAGE, GET_BALANCE}

Unit == [unit |-> TRUE]
JsError(name, message) == [kind |-> "error", name |-> name, message |-> message]

\* a provider object exposing every method of the table
FullProvider == JsObject([m \in Operations |-> JsFunction])

\* what `window.webln` may hold when the adapter is constructed
WeblnValues == {Undefined, Null, JsNumber(1), ThrowingGetter, FullProvider}

\* the methods the provider adds, removes or replaces while the page runs
MutableMethods == {SEND_PAYMENT, SEND_PAYMENT_ASYNC}

\* what a provider may store under a method name
PropertyValues == {Undefined, JsNumber(0), JsFunction}

Pending == [state |-> "pending"]
Resolved(v) == [state |-> "resolved", v |-> v]
Rejected(v) == [state |-> "rejected", v |-> v]

SeqsUpTo(S, n) == UNION {[1..k -> S] : k \in 0..n}

\* the objects that hold, for each key of `spec`, either no property or one of
\* the values `spec` lists for it
ObjectsWith(spec) ==
    UNION {{JsObject(f) : f \in {g \in [D -> UNION {spec[k] : k \in D}] :
                                    \A k \in D : g[k] \in spec[k]}} :
           D \in SUBSET DOMAIN spec}

InfoA == JsObject(("node" :> JsObject("alias" :> JsString("alice")))
                  @@ ("methods" :> JsArray(<<JsString(GET_INFO), JsNumber(7), JsString("foo")>>)))
InfoB == JsObject(("node" :> JsObject("alias" :> JsString("bob")))
                  @@ ("methods" :> JsArray(<<>>)))

\* The inputs of the concurrent runs: a few values per method, two callers.
SmallFailures ==
    {JsError("Error", "User rejected the request"), JsString("timeout")}

SmallResolves(method) ==
    CASE method = IS_ENABLED -> {JsBool(TRUE), Undefined}
      [] method = ENABLE -> {Undefined}
      [] method = GET_INFO -> {InfoA, InfoB, JsObject(NoProps)}
      [] method \in {KEYSEND, SEND_PAYMENT} ->
           {JsObject("preimage" :> JsString("p1")), JsObject(NoProps)}
      [] method = MAKE_INVOICE ->
           {JsObject("paymentRequest" :> JsString("lnbc1")), JsNumber(1)}
      [] method = SEND_MULTI_PAYMENT ->
           {JsObject(("payments" :> JsArray(<<>>)) @@ ("errors" :> JsArray(<<>>))),
            JsObject("errors" :> JsString("User rejected"))}
      [] method = SEND_PAYMENT_ASYNC -> {JsObject(NoProps), Undefined}
      [] method = SIGN_MESSAGE ->
           {JsObject(("message" :> JsString("hello")) @@ ("signature" :> JsString("sig"))),
            JsObject(("message" :> JsString("other")) @@ ("signature" :> JsString("sig")))}
      [] method = GET_BALANCE ->
           {JsObject(("balance" :> JsNumber(21)) @@ ("currency" :> JsString("sats"))),
            JsObject("balance" :> JsString("21"))}

Small ==
    [failures |-> SmallFailures,
     resolves |-> [m \in Operations |-> SmallResolves(m)],
     keysend_args |-> {[destination |-> "02aa", amount |-> 21]},
     invoice_args |-> {[RequestInvoiceArgs_new EXCEPT !.amount = Some(10)]},
     invoices |-> {"", "lnbc1"},
     invoice_lists |-> {<<>>, <<"lnbc1", "">>},
     messages |-> {"hello"}]

\* The inputs of the single-call runs: every shape of result the decoders tell apart.
NotObjects == {Undefined, Null, JsBool(FALSE), JsNumber(1), JsString("x")}
BareObjects == {JsArray(<<>>), JsFunction}

RichFailures ==
    {JsString("User rejected"), JsString("user rejected"), JsString("User rejecte"),
     JsString(""), JsError("Error", "User rejected the request"),
     JsError("Error", "Prompt was closed"), JsError("User rejected", ""),
     Undefined, Null, JsObject(NoProps)}

OptionalFieldValues(str) == {JsString(str), JsNumber(7), Null, ThrowingGetter}

NodeValues ==
    {JsNumber(1), Null, ThrowingGetter}
    \cup ObjectsWith(("alias" :> OptionalFieldValues("alice"))
                     @@ ("pubkey" :> OptionalFieldValues("02aa"))
                     @@ ("color" :> OptionalFieldValues("#3399ff")))

MethodElements == {JsString(GET_INFO), JsString("webln.foo"), JsNumber(7)}

MethodsValues ==
    {Null, JsNumber(3), JsString("on"), ThrowingGetter}
    \cup {JsArray(e) : e \in SeqsUpTo(MethodElements, MaxMethods)}

RequiredStringValues(str) ==
    {JsString(str), JsString(""), JsNumber(7), Null, ThrowingGetter}

ErrorElements ==
    {JsObject(("paymentRequest" :> JsString("lnbc1")) @@ ("message" :> JsString("no route"))),
     JsObject(("paymentRequest" :> JsString("lnbc2")) @@ ("message" :> JsString("expired"))),
     JsObject("paymentRequest" :> JsString("lnbc3")),
     JsNumber(7)}

PaymentElements ==
    {JsObject(("paymentRequest" :> JsString("lnbc4"))
              @@ ("response" :> JsObject("preimage" :> JsString("p4")))),
     JsObject(("paymentRequest" :> JsString("lnbc5"))
              @@ ("response" :> JsObject("preimage" :> JsString("p5"))))}

RichResolves(method) ==
    NotObjects \cup BareObjects \cup
    CASE method = IS_ENABLED -> {JsBool(TRUE), JsObject(NoProps)}
      [] method = ENABLE -> {JsObject(NoProps)}
      [] method = GET_INFO ->
           ObjectsWith(("node" :> NodeValues) @@ ("methods" :> MethodsValues))
      [] method \in {KEYSEND, SEND_PAYMENT} ->
           ObjectsWith("preimage" :> RequiredStringValues("p1"))
      [] method = MAKE_INVOICE ->
           ObjectsWith("paymentRequest" :> RequiredStringValues("lnbc1"))
      [] method = SEND_MULTI_PAYMENT ->
           ObjectsWith(
               ("payments" :> {JsArray(e) : e \in SeqsUpTo(PaymentElements, MaxEntries)})
               @@ ("errors" :> ({JsString("User rejected"), JsString("x"), Null, ThrowingGetter}
                                \cup {JsArray(e) : e \in SeqsUpTo(ErrorElements, MaxEntries)})))
      [] method = SEND_PAYMENT_ASYNC ->
           {JsObject(NoProps), JsObject("preimage" :> JsString("p1")),
            JsObject("preimage" :> ThrowingGetter)}
      [] method = SIGN_MESSAGE ->
           ObjectsWith(("message" :> {JsString("hello"), JsString("other"), JsNumber(7),
                                      ThrowingGetter})
                       @@ ("signature" :> RequiredStringValues("sig")))
      [] method = GET_BALANCE ->
           ObjectsWith(("balance" :> {JsNumber(21), JsNumber(0), JsString("21"), Null,
                                      ThrowingGetter})
                       @@ ("currency" :> OptionalFieldValues("sats")))

Rich ==
    [failures |-> RichFailures,
     resolves |-> [m \in Operations |-> RichResolves(m)],
     keysend_args |-> {[destination |-> "02aa", amount |-> 21],
                       [destination |-> "03bb", amount |-> 0]},
     invoice_args |-> {RequestInvoiceArgs_new,
                       [RequestInvoiceArgs_new EXCEPT !.amount = Some(10),
                                                      !.default_memo = Some("coffee")]},
     invoices |-> {"", " ", "lnbc1"},
     invoice_lists |-> SeqsUpTo({"", "lnbc1", "lnbc2"}, MaxEntries),
     messages |-> {"hello", ""}]

----------------------------------------------------------------------------
(* WebLN: construction and method resolution *)

\* the variables the adapter's operations do not touch
OthersIdle == UNCHANGED <<gim_src, gim_mid, gim_back, args, encoded>>

\* the global object as Reflect::get sees it
WindowObject ==
    JsObject(IF provider = Undefined THEN NoProps ELSE ("webln" :> provider))

\* the handle refers to the object behind `window.webln`; it holds no copy
WeblnHandle == [webln_obj |-> "window.webln"]

WebLN_new_AnyValue ==
    IF ~window.exists THEN Err(NoGlobalWindowObject)
    ELSE LET namespace == Reflect_get(WindowObject, "webln")
         IN IF ~namespace.ok THEN Err(NamespaceNotFound("webln"))
            ELSE IF namespace.val = Undefined
            THEN Err(NamespaceNotFound("webln"))
            ELSE Ok(WeblnHandle)

\* WebLN::new
WebLN_new ==
    IF ~window.exists THEN Err(NoGlobalWindowObject)
    ELSE LET namespace == Reflect_get(WindowObject, "webln")
         IN IF ~namespace.ok THEN Err(NamespaceNotFound("webln"))
            ELSE IF ~IsInstanceOfObject(namespace.val)
            THEN Err(NamespaceNotFound("webln"))
            ELSE Ok(WeblnHandle)

Constructed == webln # NotYet /\ webln.ok

get_func_Cached(name) ==
    LET val == Reflect_get(FullProvider, name)
    IN IF ~val.ok THEN Err(NamespaceNotFound(name))
       ELSE IF ~IsFunction(val.val) THEN Err(NamespaceNotFound(name))
       ELSE Ok(val.val)

\* WebLN::get_func
get_func(name) ==
    LET val == Reflect_get(provider, name)
    IN IF ~val.ok THEN Err(NamespaceNotFound(name))
       ELSE IF ~IsFunction(val.val) THEN Err(NamespaceNotFound(name))
       ELSE Ok(val.val)

----------------------------------------------------------------------------
(* WebLN: the operations *)

Idle == [st |-> "Idle"]
Awaiting(op, arg, issued, promise) ==
    [st |-> "AwaitingHostCall", op |-> op, arg |-> arg, issued |-> issued,
     promise |-> promise]
Finished(op, arg, issued, promise, outcome) ==
    [st |-> IF outcome.ok THEN "Decoded" ELSE "Failed", op |-> op, arg |-> arg,
     issued |-> issued, promise |-> promise, outcome |-> outcome]

PreCheck_Gated(op, arg) ==
    IF op \in {SEND_PAYMENT, SEND_PAYMENT_ASYNC} /\ arg = ""
    THEN Err(EmptyInvoice)
    ELSE IF /\ op \notin {ENABLE, IS_ENABLED}
            /\ ~\E c \in Callers : calls[c].st = "Decoded" /\ calls[c].op = ENABLE
    THEN Err(SomethingGoneWrong)
    ELSE Ok(Unit)

PreCheck_None(op, arg) == Ok(Unit)

\* `if invoice.is_empty() { return Err(Error::EmptyInvoice); }`
PreCheck(op, arg) ==
    IF op \in {SEND_PAYMENT, SEND_PAYMENT_ASYNC} /\ arg = ""
    THEN Err(EmptyInvoice)
    ELSE Ok(Unit)

CallArgs_SkipEmpty(op, arg) ==
    CASE op = KEYSEND ->
           <<Reflect_set(Reflect_set(JsObject(NoProps), "destination",
                                     JsString(arg.destination)),
                         "amount", JsString(u64_to_string(arg.amount)))>>
      [] op = MAKE_INVOICE -> <<RequestInvoiceArgs_try_into(arg).val>>
      [] op \in {SEND_PAYMENT, SEND_PAYMENT_ASYNC, SIGN_MESSAGE} -> <<JsString(arg)>>
      [] op = SEND_MULTI_PAYMENT ->
           LET kept == SelectSeq(arg, LAMBDA i : i # "")
           IN <<JsArray([i \in 1..Len(kept) |-> JsString(kept[i])])>>
      [] OTHER -> <<>>

\* the arguments of func.call0 / func.call1
CallArgs(op, arg) ==
    CASE op = KEYSEND ->
           <<Reflect_set(Reflect_set(JsObject(NoProps), "destination",
                                     JsString(arg.destination)),
                         "amount", JsString(u64_to_string(arg.amount)))>>
      [] op = MAKE_INVOICE -> <<RequestInvoiceArgs_try_into(arg).val>>
      [] op \in {SEND_PAYMENT, SEND_PAYMENT_ASYNC, SIGN_MESSAGE} -> <<JsString(arg)>>
      [] op = SEND_MULTI_PAYMENT -> <<JsArray([i \in 1..Len(arg) |-> JsString(arg[i])])>>
      [] OTHER -> <<>>

\* what follows `JsFuture::from(promise).await` once the promise has settled
AfterAwait(op, settled) ==
    IF settled.state = "rejected" THEN Err(From_JsValue(settled.v))
    ELSE LET result == settled.v
         IN CASE op = IS_ENABLED -> Deserialize_bool(result)
              [] op = ENABLE -> Ok(Unit)
              [] op = GET_INFO -> Deserialize_GetInfoResponse(result)
              [] op = KEYSEND -> Deserialize_SendPaymentResponse(result)
              [] op = MAKE_INVOICE -> Deserialize_RequestInvoiceResponse(result)
              [] op = SEND_PAYMENT -> Deserialize_SendPaymentResponse(result)
              [] op = SEND_MULTI_PAYMENT -> Deserialize_SendMultiPaymentResponse(result)
              [] op = SEND_PAYMENT_ASYNC ->
                   IF ~is_object(result) THEN Err(SomethingGoneWrong) ELSE Ok(Unit)
              [] op = SIGN_MESSAGE -> Deserialize_SignMessageResponse(result)
              [] op = GET_BALANCE -> Deserialize_BalanceResponse(result)

\* the first poll of an operation's future: everything up to the await.
\* `throws` are the values the host function may throw.
FirstPoll(c, op, arg, throws) ==
    /\ Constructed
    /\ calls[c] = Idle
    /\ LET pre == PreCheck(op, arg)
           func == get_func(op)
       IN IF ~pre.ok
          THEN /\ calls' = [calls EXCEPT ![c] = Finished(op, arg, 0, 0, pre)]
               /\ UNCHANGED <<promises, hostCalls>>
          ELSE IF ~func.ok
          THEN /\ calls' = [calls EXCEPT ![c] = Finished(op, arg, 0, 0, func)]
               /\ UNCHANGED <<promises, hostCalls>>
          ELSE \/ \E v \in throws :
                     \* the host function throws
                     /\ hostCalls' = Append(hostCalls,
                            [method |-> op, args |-> CallArgs(op, arg),
                             ret |-> [type |-> "throw", v |-> v]])
                     /\ calls' = [calls EXCEPT ![c] =
                            Finished(op, arg, Len(hostCalls) + 1, 0, Err(From_JsValue(v)))]
                     /\ UNCHANGED promises
               \/ \* the host function returns; Promise::resolve gives the promise to await
                  /\ hostCalls' = Append(hostCalls,
                         [method |-> op, args |-> CallArgs(op, arg),
                          ret |-> [type |-> "promise", id |-> Len(promises) + 1]])
                  /\ promises' = Append(promises, Pending)
                  /\ calls' = [calls EXCEPT ![c] =
                         Awaiting(op, arg, Len(hostCalls) + 1, Len(promises) + 1)]
    /\ UNCHANGED <<window, webln, provider>>
    /\ OthersIdle

AwaitedPromise_Latest(c) == Len(promises)

\* the promise an operation's JsFuture was made from
AwaitedPromise(c) == calls[c].promise

Resume_Timeout(c) ==
    /\ calls[c].st = "AwaitingHostCall"
    /\ calls' = [calls EXCEPT ![c] =
           Finished(calls[c].op, calls[c].arg, calls[c].issued, calls[c].promise,
                    IF promises[AwaitedPromise(c)] = Pending
                    THEN Err(Wasm("timeout"))
                    ELSE AfterAwait(calls[c].op, promises[AwaitedPromise(c)]))]
    /\ UNCHANGED <<window, webln, provider, promises, hostCalls>>
    /\ OthersIdle

Resume_Retry(c) ==
    /\ calls[c].st = "AwaitingHostCall"
    /\ promises[AwaitedPromise(c)] # Pending
    /\ IF promises[AwaitedPromise(c)].state = "rejected" /\ Len(promises) < 4
       THEN /\ hostCalls' = Append(hostCalls,
                   [method |-> calls[c].op, args |-> CallArgs(calls[c].op, calls[c].arg),
                    ret |-> [type |-> "promise", id |-> Len(promises) + 1]])
            /\ promises' = Append(promises, Pending)
            /\ calls' = [calls EXCEPT ![c] =
                   Awaiting(calls[c].op, calls[c].arg, Len(hostCalls) + 1,
                            Len(promises) + 1)]
       ELSE /\ calls' = [calls EXCEPT ![c] =
                   Finished(calls[c].op, calls[c].arg, calls[c].issued, calls[c].promise,
                            AfterAwait(calls[c].op, promises[AwaitedPromise(c)]))]
            /\ UNCHANGED <<promises, hostCalls>>
    /\ UNCHANGED <<window, webln, provider>>
    /\ OthersIdle

\* the second poll: the awaited promise has settled and the result is decoded
Resume(c) ==
    /\ calls[c].st = "AwaitingHostCall"
    /\ promises[AwaitedPromise(c)] # Pending
    /\ calls' = [calls EXCEPT ![c] =
           Finished(calls[c].op, calls[c].arg, calls[c].issued, calls[c].promise,
                    AfterAwait(calls[c].op, promises[AwaitedPromise(c)]))]
    /\ UNCHANGED <<window, webln, provider, promises, hostCalls>>
    /\ OthersIdle

New ==
    /\ webln = NotYet
    /\ webln' = WebLN_new
    /\ UNCHANGED <<window, provider, calls, promises, hostCalls>>
    /\ OthersIdle

\* WebLN::is_enabled
is_enabled(c, in) == FirstPoll(c, IS_ENABLED, Unit, in.failures)
\* WebLN::enable
enable(c, in) == FirstPoll(c, ENABLE, Unit, in.failures)
\* WebLN::get_info
get_info(c, in) == FirstPoll(c, GET_INFO, Unit, in.failures)
\* WebLN::keysend
keysend(c, in) == \E a \in in.keysend_args : FirstPoll(c, KEYSEND, a, in.failures)
\* WebLN::make_invoice
make_invoice(c, in) == \E a \in in.invoice_args : FirstPoll(c, MAKE_INVOICE, a, in.failures)
\* WebLN::send_payment
send_payment(c, in) ==
    \E invoice \in in.invoices : FirstPoll(c, SEND_PAYMENT, invoice, in.failures)
\* WebLN::send_multi_payment
send_multi_payment(c, in) ==
    \E invoices \in in.invoice_lists : FirstPoll(c, SEND_MULTI_PAYMENT, invoices, in.failures)
\* WebLN::send_payment_async
send_payment_async(c, in) ==
    \E invoice \in in.invoices : FirstPoll(c, SEND_PAYMENT_ASYNC, invoice, in.failures)
\* WebLN::sign_message
sign_message(c, in) ==
    \E message \in in.messages : FirstPoll(c, SIGN_MESSAGE, message, in.failures)
\* WebLN::get_balance
get_balance(c, in) == FirstPoll(c, GET_BALANCE, Unit, in.failures)

\* the method a promise was returned for
MethodOf(p) ==
    (CHOOSE h \in {hostCalls[i] : i \in DOMAIN hostCalls} :
        h.ret = [type |-> "promise", id |-> p]).method

\* the provider resolves one of the promises it handed out
ProviderResolves(p, in) ==
    /\ promises[p] = Pending
    /\ \E v \in in.resolves[MethodOf(p)] :
           promises' = [promises EXCEPT ![p] = Resolved(v)]
    /\ UNCHANGED <<window, webln, provider, calls, hostCalls>>
    /\ OthersIdle

\* the provider rejects one of the promises it handed out
ProviderRejects(p, in) ==
    /\ promises[p] = Pending
    /\ \E v \in in.failures :
           promises' = [promises EXCEPT ![p] = Rejected(v)]
    /\ UNCHANGED <<window, webln, provider, calls, hostCalls>>
    /\ OthersIdle

\* the provider (a wallet extension) adds, removes or replaces one of its methods
ProviderSetsProperty(m, v) ==
    /\ provider.kind = "object"
    /\ Reflect_get(provider, m) # Ok(v)
    /\ provider' = IF v = Undefined
                   THEN JsObject([k \in DOMAIN provider.props \ {m} |-> provider.props[k]])
                   ELSE Reflect_set(provider, m, v)
    /\ UNCHANGED <<window, webln, calls, promises, hostCalls>>
    /\ OthersIdle

DispInit ==
    /\ window \in {[exists |-> FALSE], [exists |-> TRUE]}
    /\ provider \in IF window.exists THEN WeblnValues ELSE {Undefined}
    /\ webln = NotYet
    /\ calls = [c \in Callers |-> Idle]
    /\ promises = <<>>
    /\ hostCalls = <<>>

DispParked ==
    /\ window = [exists |-> FALSE]
    /\ provider = Undefined
    /\ webln = NotYet
    /\ calls = [c \in Callers |-> Idle]
    /\ promises = <<>>
    /\ hostCalls = <<>>

----------------------------------------------------------------------------
(* Capability identifier round trip: a string is parsed and written back,  *)
(* a variant is written and parsed back.                                   *)

KnownLiterals ==
    {IS_ENABLED, ENABLE, GET_INFO, KEYSEND, MAKE_INVOICE, SEND_PAYMENT,
     SEND_MULTI_PAYMENT, SEND_PAYMENT_ASYNC, SIGN_MESSAGE, VERIFY_MESSAGE,
     REQUEST, LNURL, ON, OFF, GET_BALANCE}

\* strings near the known literals: one character more or less, and the empty string
MethodStrings ==
    KnownLiterals
    \cup {k \o "x" : k \in KnownLiterals}
    \cup {"x" \o k : k \in KnownLiterals}
    \cup {SubSeq(k, 1, Len(k) - 1) : k \in KnownLiterals}
    \cup {SubSeq(k, 2, Len(k)) : k \in KnownLiterals}
    \cup {""}

MethodValues == KnownMethods \cup {Other(s) : s \in MethodStrings}

AsStr(s) == [type |-> "str", s |-> s]
AsMethod(m) == [type |-> "method", m |-> m]
Unset == [type |-> "unset"]

GimInit ==
    /\ gim_src \in {AsStr(s) : s \in MethodStrings} \cup {AsMethod(m) : m \in MethodValues}
    /\ gim_mid = Unset
    /\ gim_back = Unset

GimParked ==
    /\ gim_src = Unset
    /\ gim_mid = Unset
    /\ gim_back = Unset

\* GetInfoMethod::from(&str) applied to the string the round trip starts from
ParseSource ==
    /\ gim_src.type = "str" /\ gim_mid = Unset
    /\ gim_mid' = AsMethod(GetInfoMethod_from(gim_src.s))
    /\ UNCHANGED <<gim_src, gim_back>>
    /\ UNCHANGED <<dispVars, encVars>>

\* GetInfoMethod::to_string applied to the parsed variant
WriteBack ==
    /\ gim_mid.type = "method" /\ gim_back = Unset
    /\ gim_back' = AsStr(GetInfoMethod_to_string(gim_mid.m))
    /\ UNCHANGED <<gim_src, gim_mid>>
    /\ UNCHANGED <<dispVars, encVars>>

\* GetInfoMethod::to_string applied to the variant the round trip starts from
WriteSource ==
    /\ gim_src.type = "method" /\ gim_mid = Unset
    /\ gim_mid' = AsStr(GetInfoMethod_to_string(gim_src.m))
    /\ UNCHANGED <<gim_src, gim_back>>
    /\ UNCHANGED <<dispVars, encVars>>

\* GetInfoMethod::from(&str) applied to the written string
ParseBack ==
    /\ gim_mid.type = "str" /\ gim_back = Unset
    /\ gim_back' = AsMethod(GetInfoMethod_from(gim_mid.s))
    /\ UNCHANGED <<gim_src, gim_mid>>
    /\ UNCHANGED <<dispVars, encVars>>

----------------------------------------------------------------------------
(* Building and encoding Invoice Request Args *)

RECURSIVE Pow10(_)
Pow10(k) == IF k = 0 THEN 1 ELSE 10 * Pow10(k - 1)

\* amounts in SAT: zero, the powers of ten and their predecessors, and two
\* amounts of ten digits
Amounts ==
    {0} \cup {Pow10(k) : k \in 0..MaxDigits} \cup {Pow10(k) - 1 : k \in 1..MaxDigits}
        \cup {1234567890, 2147483647}

Memos == {"", "coffee"}

EncInit == args = RequestInvoiceArgs_new /\ encoded = NotYet

\* RequestInvoiceArgs::amount
RequestInvoiceArgs_amount(x) ==
    /\ encoded = NotYet
    /\ args' = [args EXCEPT !.amount = Some(x)]
    /\ UNCHANGED <<encoded, dispVars, gimVars>>

\* RequestInvoiceArgs::default_amount
RequestInvoiceArgs_default_amount(x) ==
    /\ encoded = NotYet
    /\ args' = [args EXCEPT !.default_amount = Some(x)]
    /\ UNCHANGED <<encoded, dispVars, gimVars>>

\* RequestInvoiceArgs::minimum_amount
RequestInvoiceArgs_minimum_amount(x) ==
    /\ encoded = NotYet
    /\ args' = [args EXCEPT !.minimum_amount = Some(x)]
    /\ UNCHANGED <<encoded, dispVars, gimVars>>

\* RequestInvoiceArgs::maximum_amount
RequestInvoiceArgs_maximum_amount(x) ==
    /\ encoded = NotYet
    /\ args' = [args EXCEPT !.maximum_amount = Some(x)]
    /\ UNCHANGED <<encoded, dispVars, gimVars>>

\* RequestInvoiceArgs::default_memo
RequestInvoiceArgs_default_memo(memo) ==
    /\ encoded = NotYet
    /\ args' = [args EXCEPT !.default_memo = Some(memo)]
    /\ UNCHANGED <<encoded, dispVars, gimVars>>

\* `let request_invoice_obj: Object = args.try_into()?;` in WebLN::make_invoice
EncodeArgs ==
    /\ encoded = NotYet
    /\ encoded' = RequestInvoiceArgs_try_into(args)
    /\ UNCHANGED <<args, dispVars, gimVars>>

----------------------------------------------------------------------------
(* Specifications *)

EncParked == EncInit

\* the adapter in use: construction, concurrent operations, the provider
Init == DispInit /\ GimParked /\ EncParked
Next ==
    \/ New
    \/ \E c \in Callers : is_enabled(c, Small)
    \/ \E c \in Callers : enable(c, Small)
    \/ \E c \in Callers : get_info(c, Small)
    \/ \E c \in Callers : keysend(c, Small)
    \/ \E c \in Callers : make_invoice(c, Small)
    \/ \E c \in Callers : send_payment(c, Small)
    \/ \E c \in Callers : send_multi_payment(c, Small)
    \/ \E c \in Callers : send_payment_async(c, Small)
    \/ \E c \in Callers : sign_message(c, Small)
    \/ \E c \in Callers : get_balance(c, Small)
    \/ \E c \in Callers : Resume(c)
    \/ \E p \in DOMAIN promises : ProviderResolves(p, Small)
    \/ \E p \in DOMAIN promises : ProviderRejects(p, Small)
    \/ \E m \in MutableMethods, v \in PropertyValues : ProviderSetsProperty(m, v)
Spec == Init /\ [][Next]_vars

\* one operation at a time, over every shape of host result the decoders tell apart
InitCall == DispInit /\ GimParked /\ EncParked
NextCall ==
    \/ New
    \/ is_enabled("a", Rich)
    \/ enable("a", Rich)
    \/ get_info("a", Rich)
    \/ keysend("a", Rich)
    \/ make_invoice("a", Rich)
    \/ send_payment("a", Rich)
    \/ send_multi_payment("a", Rich)
    \/ send_payment_async("a", Rich)
    \/ sign_message("a", Rich)
    \/ get_balance("a", Rich)
    \/ Resume("a")
    \/ \E p \in DOMAIN promises : ProviderResolves(p, Rich)
    \/ \E p \in DOMAIN promises : ProviderRejects(p, Rich)
SpecCall == InitCall /\ [][NextCall]_vars

\* the capability identifier conversions
InitMethod == GimInit /\ DispParked /\ EncParked
NextMethod ==
    \/ ParseSource
    \/ WriteBack
    \/ WriteSource
    \/ ParseBack
SpecMethod == InitMethod /\ [][NextMethod]_vars

\* the request encoder: args built by chained setters, then encoded
InitEncode == EncInit /\ DispParked /\ GimParked
NextEncode ==
    \/ \E x \in Amounts : RequestInvoiceArgs_amount(x)
    \/ \E x \in Amounts : RequestInvoiceArgs_default_amount(x)
    \/ \E x \in Amounts : RequestInvoiceArgs_minimum_amount(x)
    \/ \E x \in Amounts : RequestInvoiceArgs_maximum_amount(x)
    \/ \E memo \in Memos : RequestInvoiceArgs_default_memo(memo)
    \/ EncodeArgs
SpecEncode == InitEncode /\ [][NextEncode]_vars

\* the adapter under its executor: a future whose promise has settled is woken
\* and polled again (wasm_bindgen_futures queues the wake-up as a microtask), so
\* a resumable operation is resumed
InitLive == DispInit /\ GimParked /\ EncParked
NextLive ==
    \/ New
    \/ \E c \in Callers : get_info(c, Small)
    \/ \E c \in Callers : send_payment(c, Small)
    \/ \E c \in Callers : Resume(c)
    \/ \E p \in DOMAIN promises : ProviderResolves(p, Small)
    \/ \E p \in DOMAIN promises : ProviderRejects(p, Small)
SpecLive ==
    /\ InitLive
    /\ [][NextLive]_vars
    /\ \A c \in Callers : WF_vars(Resume(c))

----------------------------------------------------------------------------
(* Claims *)

Done(c) == calls[c].st \in {"Decoded", "Failed"}

\* caller c's operation has finished after its own promise resolved
DoneAfterResolve(c) ==
    /\ Done(c)
    /\ calls[c].promise > 0
    /\ promises[calls[c].promise].state = "resolved"

\* the value caller c's promise resolved with
ResolvedValue(c) == promises[calls[c].promise].v

\* what a plain read of v[key] finds: the stored value, Undefined when v has no
\* such property, ThrowingGetter when the read throws
FieldOf(v, key) ==
    IF v.kind = "object" /\ key \in DOMAIN v.props THEN v.props[key] ELSE Undefined

\* C1: sendPayment("") and sendPaymentAsync("") fail with EmptyInvoice in every
\* provider state, the method being callable, missing or not callable; the
\* operation issues no host call, so the provider's call log never holds a call
\* of the method with the empty string.
C1_EmptyInvoiceShortCircuit ==
    \A c \in Callers :
        (calls[c] # Idle /\ calls[c].op \in {SEND_PAYMENT, SEND_PAYMENT_ASYNC}
                         /\ calls[c].arg = "")
        => /\ calls[c].st = "Failed"
           /\ calls[c].outcome = Err(EmptyInvoice)
           /\ calls[c].issued = 0
           /\ calls[c].promise = 0
           /\ \A i \in DOMAIN hostCalls :
                  ~(hostCalls[i].method = calls[c].op /\ hostCalls[i].args = <<JsString("")>>)

\* both operations were called with "" on a provider that has lost both methods,
\* and the provider received no call
C1_Witness ==
    /\ calls["a"] # Idle /\ calls["a"].op = SEND_PAYMENT /\ calls["a"].arg = ""
    /\ calls["b"] # Idle /\ calls["b"].op = SEND_PAYMENT_ASYNC /\ calls["b"].arg = ""
    /\ calls["a"].outcome = Err(EmptyInvoice)
    /\ calls["b"].outcome = Err(EmptyInvoice)
    /\ FieldOf(provider, SEND_PAYMENT) = Undefined
    /\ FieldOf(provider, SEND_PAYMENT_ASYNC) = JsNumber(0)
    /\ hostCalls = <<>>

\* C2: whatever the order in which the provider settles the promises of two
\* operations in flight together, each caller's outcome is the one decoded from
\* the promise the provider returned to that caller's own host call.
C2_NoCrossTalk ==
    \A c \in Callers :
        (Done(c) /\ calls[c].issued > 0 /\ hostCalls[calls[c].issued].ret.type = "promise")
        => LET own == hostCalls[calls[c].issued].ret.id
           IN /\ hostCalls[calls[c].issued].method = calls[c].op
              /\ promises[own] # Pending
              /\ calls[c].outcome = AfterAwait(calls[c].op, promises[own])

\* two getInfo calls settled out of issue order: b, issued second, has its own
\* result while the promise of a, issued first, is still pending
C2_Witness ==
    /\ calls["a"].st = "AwaitingHostCall" /\ calls["a"].op = GET_INFO
    /\ calls["a"].promise = 1
    /\ Done("b") /\ calls["b"].op = GET_INFO /\ calls["b"].promise = 2
    /\ promises[1] = Pending
    /\ promises[2] = Resolved(InfoB)
    /\ calls["b"].outcome.ok
    /\ calls["b"].outcome.val.node.alias = Some("bob")

\* the value a finished operation's host call threw or its promise rejected with
FailureOf(c) ==
    IF calls[c].promise > 0
    THEN promises[calls[c].promise].v
    ELSE hostCalls[calls[c].issued].ret.v

FailedOnHostChannel(c) ==
    /\ Done(c)
    /\ calls[c].issued > 0
    /\ \/ hostCalls[calls[c].issued].ret.type = "throw"
       \/ promises[calls[c].promise].state = "rejected"

\* C3: when the host call throws or its promise rejects with v, the operation
\* fails with UserRejected if the stringified v contains "User rejected" and
\* otherwise with Wasm carrying the stringified v, for every operation.
C3_RejectionClassified ==
    \A c \in Callers :
        FailedOnHostChannel(c)
        => LET text == DebugFormat(FailureOf(c))
           IN /\ ~calls[c].outcome.ok
              /\ Contains(text, "User rejected") => calls[c].outcome.err = UserRejected
              /\ ~Contains(text, "User rejected") => calls[c].outcome.err = Wasm(text)

\* a promise was rejected with an Error whose message holds the refusal text
C3_Witness ==
    /\ FailedOnHostChannel("a")
    /\ calls["a"].promise > 0
    /\ FailureOf("a") = JsError("Error", "User rejected the request")
    /\ calls["a"].outcome = Err(UserRejected)

\* C4: construction fails with NoGlobalWindowObject when there is no global
\* object, with NamespaceNotFound("webln") when `webln` is absent or holds a
\* value that is no object, and succeeds only when `webln` is an object; no
\* operation runs on a failed construction.
C4_Construction ==
    /\ webln # NotYet =>
           /\ ~window.exists => webln = Err(NoGlobalWindowObject)
           /\ (window.exists /\ provider.kind \in {"undefined", "null", "number"})
                  => webln = Err(NamespaceNotFound("webln"))
           /\ webln.ok => (window.exists /\ provider.kind = "object")
    /\ \A c \in Callers : calls[c] # Idle => Constructed

\* construction was tried where `webln` is a number
C4_Witness ==
    /\ window.exists
    /\ provider = JsNumber(1)
    /\ webln = Err(NamespaceNotFound("webln"))

MandatoryKey(op) ==
    CASE op \in {KEYSEND, SEND_PAYMENT} -> "preimage"
      [] op = MAKE_INVOICE -> "paymentRequest"
      [] op = SIGN_MESSAGE -> "signature"
      [] op = GET_BALANCE -> "balance"

MandatoryKind(op) == IF op = GET_BALANCE THEN "number" ELSE "string"

\* C5: when the provider resolves keysend, sendPayment, makeInvoice, signMessage
\* or getBalance with an object whose mandatory field is missing or of the wrong
\* dynamic type, the operation fails with ObjectKeyNotFound or TypeMismatch and
\* never succeeds with a default in its place.
C5_RequiredFieldStrict ==
    \A c \in Callers :
        (/\ DoneAfterResolve(c)
         /\ calls[c].op \in {KEYSEND, SEND_PAYMENT, MAKE_INVOICE, SIGN_MESSAGE, GET_BALANCE}
         /\ IsInstanceOfObject(ResolvedValue(c))
         /\ FieldOf(ResolvedValue(c), MandatoryKey(calls[c].op)).kind
                # MandatoryKind(calls[c].op))
        => /\ ~calls[c].outcome.ok
           /\ calls[c].outcome.err.kind \in {"ObjectKeyNotFound", "TypeMismatch"}

\* sendPayment resolved with an object that has no preimage
C5_Witness ==
    /\ DoneAfterResolve("a")
    /\ calls["a"].op = SEND_PAYMENT
    /\ ResolvedValue("a") = JsObject(NoProps)
    /\ ~calls["a"].outcome.ok

\* the decoded form of an optional field
OptionalOf(v) == IF v.kind = "string" THEN Some(v.s) ELSE None

OptionalReadable(v, key) == FieldOf(v, key) # ThrowingGetter

\* C6: alias, pubkey and color of an object-shaped node, and currency of a
\* balance, decode to the string when the field is a string and to None when it
\* is absent or holds another value; no combination of them fails a response
\* whose mandatory parts are well formed.
C6_OptionalPermissive ==
    \A c \in Callers :
        DoneAfterResolve(c) =>
            LET v == ResolvedValue(c)
            IN /\ (/\ calls[c].op = GET_INFO
                   /\ v.kind = "object"
                   /\ FieldOf(v, "node").kind = "object"
                   /\ \A k \in {"alias", "pubkey", "color"} :
                          OptionalReadable(FieldOf(v, "node"), k)
                   /\ FieldOf(v, "methods").kind \notin {"undefined", "null", "throwing_getter"})
                  => /\ calls[c].outcome.ok
                     /\ calls[c].outcome.val.node =
                            [alias |-> OptionalOf(FieldOf(FieldOf(v, "node"), "alias")),
                             pubkey |-> OptionalOf(FieldOf(FieldOf(v, "node"), "pubkey")),
                             color |-> OptionalOf(FieldOf(FieldOf(v, "node"), "color"))]
               /\ (/\ calls[c].op = GET_BALANCE
                   /\ v.kind = "object"
                   /\ FieldOf(v, "balance").kind = "number"
                   /\ OptionalReadable(v, "currency"))
                  => /\ calls[c].outcome.ok
                     /\ calls[c].outcome.val.currency = OptionalOf(FieldOf(v, "currency"))

\* a getInfo result whose node has a string alias, no pubkey and a number as color
C6_Witness ==
    /\ DoneAfterResolve("a")
    /\ calls["a"].op = GET_INFO
    /\ FieldOf(ResolvedValue("a"), "node") =
           JsObject(("alias" :> JsString("alice")) @@ ("color" :> JsNumber(7)))
    /\ calls["a"].outcome.ok
    /\ calls["a"].outcome.val.node =
           [alias |-> Some("alice"), pubkey |-> None, color |-> None]

IsJsString(v) == v.kind = "string"

\* the string elements of an array, in order, each parsed as a capability identifier
ParsedStrings(elems) ==
    LET strings == SelectSeq(elems, IsJsString)
    IN [i \in 1..Len(strings) |-> GetInfoMethod_from(strings[i].s)]

\* C7: for a getInfo result whose `methods` is an array, the decoded list is the
\* subsequence of its string elements, in order and with duplicates kept, each
\* parsed as a capability identifier; the other elements are dropped and never
\* fail the response.
C7_MethodsFiltered ==
    \A c \in Callers :
        (/\ DoneAfterResolve(c)
         /\ calls[c].op = GET_INFO
         /\ ResolvedValue(c).kind = "object"
         /\ FieldOf(ResolvedValue(c), "methods").kind = "array")
        => LET v == ResolvedValue(c)
               elems == FieldOf(v, "methods").elems
           IN /\ calls[c].outcome.ok =>
                     calls[c].outcome.val.methods = ParsedStrings(elems)
              /\ (/\ FieldOf(v, "node").kind = "object"
                  /\ \A k \in {"alias", "pubkey", "color"} :
                         OptionalReadable(FieldOf(v, "node"), k))
                 => calls[c].outcome.ok

\* a methods array with a non-string between two equal strings
C7_Witness ==
    /\ DoneAfterResolve("a")
    /\ calls["a"].op = GET_INFO
    /\ FieldOf(ResolvedValue("a"), "methods") =
           JsArray(<<JsString(GET_INFO), JsNumber(7), JsString(GET_INFO)>>)
    /\ calls["a"].outcome.ok
    /\ calls["a"].outcome.val.methods = <<GetInfo, GetInfo>>


\* C9: capability identifier round trip. For each of the 15 known variants x,
\* parse(to_string(x)) = x; for every string s that is not a known literal,
\* parse(s) is the open variant carrying s; and for every string s,
\* to_string(parse(s)) = s.
C9_RoundTrip ==
    /\ (gim_src.type = "method" /\ gim_src.m \in KnownMethods /\ gim_back # Unset)
           => gim_back = AsMethod(gim_src.m)
    /\ (gim_src.type = "str" /\ gim_src.s \notin KnownLiterals /\ gim_mid # Unset)
           => gim_mid = AsMethod(Other(gim_src.s))
    /\ (gim_src.type = "str" /\ gim_back # Unset)
           => gim_back = AsStr(gim_src.s)

\* a known variant has been written and parsed back
C9_Witness ==
    /\ gim_src = AsMethod(GetBalance)
    /\ gim_mid = AsStr(GET_BALANCE)
    /\ gim_back # Unset

\* the value of a character as a decimal digit, -1 for any other character
DigitValue(ch) ==
    IF \E d \in 0..9 : SubSeq("0123456789", d + 1, d + 1) = ch
    THEN CHOOSE d \in 0..9 : SubSeq("0123456789", d + 1, d + 1) = ch
    ELSE -1

RECURSIVE DecimalValue(_)
DecimalValue(str) ==
    IF Len(str) = 0 THEN 0
    ELSE 10 * DecimalValue(SubSeq(str, 1, Len(str) - 1))
             + DigitValue(SubSeq(str, Len(str), Len(str)))

\* v is the JavaScript string holding the base-10 numeral of n
IsDecimalStringOf(v, n) ==
    /\ v.kind = "string"
    /\ Len(v.s) >= 1
    /\ \A i \in 1..Len(v.s) : DigitValue(SubSeq(v.s, i, i)) >= 0
    /\ Len(v.s) > 1 => SubSeq(v.s, 1, 1) # "0"
    /\ DecimalValue(v.s) = n

\* C8: the object passed to makeInvoice holds exactly the keys of the populated
\* fields, under the names amount, defaultAmount, minimumAmount, maximumAmount
\* and defaultMemo; each populated amount is the base-10 string of its integer
\* and defaultMemo is the memo string; an unset field sends no key.
C8_EncodesPopulatedOnly ==
    encoded # NotYet =>
        /\ encoded.ok
        /\ encoded.val.kind = "object"
        /\ LET props == encoded.val.props
           IN /\ DOMAIN props =
                     (IF args.amount.some THEN {"amount"} ELSE {})
                     \cup (IF args.default_amount.some THEN {"defaultAmount"} ELSE {})
                     \cup (IF args.minimum_amount.some THEN {"minimumAmount"} ELSE {})
                     \cup (IF args.maximum_amount.some THEN {"maximumAmount"} ELSE {})
                     \cup (IF args.default_memo.some THEN {"defaultMemo"} ELSE {})
              /\ args.amount.some => IsDecimalStringOf(props["amount"], args.amount.val)
              /\ args.default_amount.some =>
                     IsDecimalStringOf(props["defaultAmount"], args.default_amount.val)
              /\ args.minimum_amount.some =>
                     IsDecimalStringOf(props["minimumAmount"], args.minimum_amount.val)
              /\ args.maximum_amount.some =>
                     IsDecimalStringOf(props["maximumAmount"], args.maximum_amount.val)
              /\ args.default_memo.some =>
                     props["defaultMemo"] = JsString(args.default_memo.val)

\* args with only `amount` set to a two-digit amount have been encoded
C8_Witness ==
    /\ encoded # NotYet
    /\ args = [RequestInvoiceArgs_new EXCEPT !.amount = Some(10)]
    /\ encoded.val = JsObject("amount" :> JsString("10"))

PaymentEntry(e) ==
    [payment_request |-> FieldOf(e, "paymentRequest").s,
     response |-> [preimage |-> FieldOf(FieldOf(e, "response"), "preimage").s]]

\* C11: when sendMultiPayment succeeds on a result whose `payments` array holds
\* n well-formed entries, the decoded `payments` list holds those n entries in
\* the provider's order.
C11_PaymentsDecoded ==
    \A c \in Callers :
        (/\ DoneAfterResolve(c)
         /\ calls[c].op = SEND_MULTI_PAYMENT
         /\ calls[c].outcome.ok
         /\ FieldOf(ResolvedValue(c), "payments").kind = "array")
        => LET js_payments == FieldOf(ResolvedValue(c), "payments").elems
           IN calls[c].outcome.val.payments
                  = [i \in 1..Len(js_payments) |-> PaymentEntry(js_payments[i])]

\* caller c's operation starts in this step and gets past its pre-check, so
\* that it resolves its method
Dispatches(c) ==
    /\ calls[c] = Idle
    /\ calls'[c] # Idle
    /\ ~(calls'[c].op \in {SEND_PAYMENT, SEND_PAYMENT_ASYNC} /\ calls'[c].arg = "")

\* C12: each dispatch resolves the method on the provider as it is at that
\* moment: the operation fails with NamespaceNotFound(<method name>) without a
\* host call exactly when the property is then absent or not callable, whatever
\* the provider held, and whatever calls were made, before.
C12_ResolvedAtDispatch ==
    [][\A c \in Callers :
           Dispatches(c)
           => LET op == calls'[c].op
                  callable == FieldOf(provider, op).kind = "function"
              IN (/\ calls'[c].st = "Failed"
                  /\ calls'[c].outcome = Err(NamespaceNotFound(op))
                  /\ hostCalls' = hostCalls)
                 <=> ~callable]_vars

\* sendPayment went through to the provider for one caller and failed with
\* NamespaceNotFound for the other, the provider having changed in between
C12_Witness ==
    /\ calls["a"] # Idle /\ calls["a"].op = SEND_PAYMENT /\ calls["a"].arg = "lnbc1"
    /\ calls["a"].st = "Decoded"
    /\ calls["b"] # Idle /\ calls["b"].op = SEND_PAYMENT /\ calls["b"].arg = "lnbc1"
    /\ calls["b"].st = "Failed"
    /\ calls["b"].outcome = Err(NamespaceNotFound(SEND_PAYMENT))
    /\ calls["b"].issued = 0
    /\ Len(hostCalls) = 1

\* the steps an operation may take: started and suspended at the await with its
\* host call issued; started and failed at once, either with no host call
\* (pre-check or method resolution) or with the one host call that threw;
\* resumed from the await into Decoded or Failed with no further host call
OperationStep(c) ==
    \/ /\ calls[c].st = "Idle"
       /\ calls'[c].st = "AwaitingHostCall"
       /\ Len(hostCalls') = Len(hostCalls) + 1
       /\ calls'[c].issued = Len(hostCalls')
       /\ hostCalls'[Len(hostCalls')].ret.type = "promise"
    \/ /\ calls[c].st = "Idle"
       /\ calls'[c].st = "Failed"
       /\ \/ hostCalls' = hostCalls /\ calls'[c].issued = 0
          \/ /\ Len(hostCalls') = Len(hostCalls) + 1
             /\ calls'[c].issued = Len(hostCalls')
             /\ hostCalls'[Len(hostCalls')].ret.type = "throw"
    \/ /\ calls[c].st = "AwaitingHostCall"
       /\ calls'[c].st \in {"Decoded", "Failed"}
       /\ hostCalls' = hostCalls
       /\ promises' = promises
       /\ calls'[c].op = calls[c].op
       /\ calls'[c].issued = calls[c].issued
       /\ calls'[c].promise = calls[c].promise

\* C13: every operation is single-shot. It moves Idle -> AwaitingHostCall ->
\* Decoded or Failed, or Idle -> Failed, and never out of Decoded or Failed; the
\* provider receives a host call only when an operation starts, one at most per
\* operation, and none after a rejection or a decode failure.
C13_SingleShot ==
    /\ [](Len(hostCalls) = Cardinality({c \in Callers : calls[c] # Idle /\ calls[c].issued > 0}))
    /\ [][/\ \A c \in Callers : calls'[c] # calls[c] => OperationStep(c)
          /\ hostCalls' # hostCalls =>
                 /\ Len(hostCalls') = Len(hostCalls) + 1
                 /\ SubSeq(hostCalls', 1, Len(hostCalls)) = hostCalls
                 /\ \E c \in Callers : calls[c] = Idle /\ calls'[c] # Idle]_vars

\* an operation failed on a rejected promise and the provider has received the
\* one host call only
C13_Witness ==
    /\ calls["a"].st = "Failed"
    /\ calls["a"].promise > 0
    /\ promises[calls["a"].promise].state = "rejected"
    /\ calls["b"] = Idle
    /\ Len(hostCalls) = 1

\* what getInfo and sendPayment return for these results of the provider
ExpectedOutcome(op, v) ==
    CASE op = GET_INFO /\ v = InfoB ->
           Ok([node |-> [alias |-> Some("bob"), pubkey |-> None, color |-> None],
               methods |-> <<>>])
      [] op = SEND_PAYMENT /\ v = JsObject("preimage" :> JsString("p1")) ->
           Ok([preimage |-> "p1"])
      [] op = SEND_PAYMENT /\ v = JsObject(NoProps) ->
           Err(TypeMismatch("expected a string [preimage]"))

\* C14: no operation changes the Provider Handle; every operation whose method
\* is callable reaches the provider, and getInfo and sendPayment give the
\* outcome their own host result decodes to, whether enable was never called,
\* is still pending, succeeded or failed on the same adapter.
C14_NoGating ==
    /\ [][webln # NotYet => webln' = webln]_vars
    /\ [][\A c \in Callers :
              (Dispatches(c) /\ FieldOf(provider, calls'[c].op).kind = "function")
              => /\ calls'[c].issued = Len(hostCalls) + 1
                 /\ hostCalls'[calls'[c].issued].method = calls'[c].op]_vars
    /\ [](\A c \in Callers :
              (/\ DoneAfterResolve(c)
               /\ \/ calls[c].op = GET_INFO /\ ResolvedValue(c) = InfoB
                  \/ /\ calls[c].op = SEND_PAYMENT
                     /\ ResolvedValue(c) \in {JsObject("preimage" :> JsString("p1")),
                                              JsObject(NoProps)})
              => calls[c].outcome = ExpectedOutcome(calls[c].op, ResolvedValue(c)))

\* enable was refused by the user and sendPayment on the same adapter succeeded
C14_Witness ==
    /\ calls["a"].st = "Failed"
    /\ calls["a"].op = ENABLE
    /\ calls["a"].outcome = Err(UserRejected)
    /\ calls["b"].st = "Decoded"
    /\ calls["b"].op = SEND_PAYMENT
    /\ calls["b"].outcome = Ok([preimage |-> "p1"])
    /\ webln = Ok(WeblnHandle)

\* C15: when the provider resolves keysend, sendPayment, makeInvoice,
\* signMessage or getBalance with an object from which the required field is
\* absent, the operation fails with ObjectKeyNotFound naming that key, and it
\* fails with TypeMismatch only when the key is present.
C15_AbsentKeyNotFound ==
    \A c \in Callers :
        (/\ DoneAfterResolve(c)
         /\ calls[c].op \in {KEYSEND, SEND_PAYMENT, MAKE_INVOICE, SIGN_MESSAGE, GET_BALANCE}
         /\ IsInstanceOfObject(ResolvedValue(c))
         /\ calls[c].op = SIGN_MESSAGE => FieldOf(ResolvedValue(c), "message").kind = "string")
        => LET key == MandatoryKey(calls[c].op)
               absent == FieldOf(ResolvedValue(c), key) = Undefined
           IN /\ absent => calls[c].outcome = Err(ObjectKeyNotFound(key))
              /\ (~calls[c].outcome.ok /\ calls[c].outcome.err.kind = "TypeMismatch")
                     => ~absent

\* an element of `errors` that decodes: an object whose paymentRequest and
\* message are strings
WellFormedError(e) ==
    /\ e.kind = "object"
    /\ FieldOf(e, "paymentRequest").kind = "string"
    /\ FieldOf(e, "message").kind = "string"

ErrorEntry(e) ==
    [payment_request |-> FieldOf(e, "paymentRequest").s, message |-> FieldOf(e, "message").s]

\* the well-formed elements, in their original order
RECURSIVE WellFormedEntries(_)
WellFormedEntries(elems) ==
    IF elems = <<>> THEN <<>>
    ELSE (IF WellFormedError(Head(elems)) THEN <<ErrorEntry(Head(elems))>> ELSE <<>>)
         \o WellFormedEntries(Tail(elems))

\* the error the first element that does not decode fails with
RECURSIVE FirstMalformed(_)
FirstMalformed(elems) ==
    LET e == Head(elems)
    IN IF WellFormedError(e) THEN FirstMalformed(Tail(elems))
       ELSE IF ~IsInstanceOfObject(e) THEN SomethingGoneWrong
       ELSE IF FieldOf(e, "paymentRequest") = ThrowingGetter
       THEN ObjectKeyNotFound("paymentRequest")
       ELSE IF FieldOf(e, "paymentRequest").kind # "string"
       THEN TypeMismatch("expected a string [paymentRequest]")
       ELSE IF FieldOf(e, "message") = ThrowingGetter THEN ObjectKeyNotFound("message")
       ELSE TypeMismatch("expected a string [message]")

\* sendMultiPayment has finished on a result whose `errors` is an array
MultiPaymentErrorsDecoded(c) ==
    /\ DoneAfterResolve(c)
    /\ calls[c].op = SEND_MULTI_PAYMENT
    /\ IsInstanceOfObject(ResolvedValue(c))
    /\ FieldOf(ResolvedValue(c), "errors").kind = "array"

\* C16 as stated: elements of `errors` that do not decode are skipped; the call
\* succeeds and the decoded errors are the well-formed elements in order.
C16_MalformedErrorsSkipped ==
    \A c \in Callers :
        MultiPaymentErrorsDecoded(c)
        => /\ calls[c].outcome.ok
           /\ calls[c].outcome.val.errors
                  = WellFormedEntries(FieldOf(ResolvedValue(c), "errors").elems)

\* C16, amended: the call succeeds only when every element of `errors` decodes,
\* and then the decoded errors are all the elements in order; one element that
\* does not decode fails the whole call with the error of the first such
\* element.
C16_MalformedErrorFailsCall ==
    \A c \in Callers :
        MultiPaymentErrorsDecoded(c)
        => LET elems == FieldOf(ResolvedValue(c), "errors").elems
               allGood == \A i \in DOMAIN elems : WellFormedError(elems[i])
           IN /\ allGood =>
                     /\ calls[c].outcome.ok
                     /\ calls[c].outcome.val.errors
                            = [i \in DOMAIN elems |-> ErrorEntry(elems[i])]
              /\ ~allGood => calls[c].outcome = Err(FirstMalformed(elems))

\* a well-formed entry followed by one without `message` failed the call
C16_Witness ==
    /\ MultiPaymentErrorsDecoded("a")
    /\ Len(FieldOf(ResolvedValue("a"), "errors").elems) = 2
    /\ WellFormedError(FieldOf(ResolvedValue("a"), "errors").elems[1])
    /\ FieldOf(ResolvedValue("a"), "errors").elems[2] = JsObject("paymentRequest" :> JsString("lnbc3"))
    /\ calls["a"].outcome = Err(TypeMismatch("expected a string [message]"))

\* C17: once the host call has resolved, the operation succeeds or fails with
\* SomethingGoneWrong, ObjectKeyNotFound or TypeMismatch, whatever the resolved
\* value holds; UserRejected and Wasm come from the failure channel only.
C17_DecodeErrorsOnly ==
    \A c \in Callers :
        DoneAfterResolve(c)
        => \/ calls[c].outcome.ok
           \/ calls[c].outcome.err.kind
                  \in {"SomethingGoneWrong", "ObjectKeyNotFound", "TypeMismatch"}

\* C18: sendPaymentAsync with a non-empty invoice whose host call resolved with
\* v succeeds exactly when v is object-shaped (a non-null value of type
\* "object": a plain object or an array), without reading any field of v, and
\* fails with SomethingGoneWrong for every other v.
C18_AsyncResultObjectShaped ==
    \A c \in Callers :
        (DoneAfterResolve(c) /\ calls[c].op = SEND_PAYMENT_ASYNC)
        => LET v == ResolvedValue(c)
           IN /\ calls[c].arg # ""
              /\ v.kind \in {"object", "array"} => calls[c].outcome = Ok(Unit)
              /\ v.kind \notin {"object", "array"} => calls[c].outcome = Err(SomethingGoneWrong)
              /\ v.kind \in {"undefined", "null", "boolean", "number", "string"}
                     => calls[c].outcome = Err(SomethingGoneWrong)

\* the call resolved with a number and failed
C18_Witness ==
    /\ DoneAfterResolve("a")
    /\ calls["a"].op = SEND_PAYMENT_ASYNC
    /\ ResolvedValue("a") = JsNumber(1)
    /\ calls["a"].outcome = Err(SomethingGoneWrong)

\* caller c's operation is suspended on a promise the provider has not settled
AwaitingPending(c) ==
    /\ calls[c].st = "AwaitingHostCall"
    /\ promises[calls[c].promise] = Pending

\* C19: an operation suspended at its await reaches Decoded or Failed once the
\* provider has settled its promise, and stays in AwaitingHostCall for as long
\* as the promise is pending: nothing but the settlement completes it. While it
\* hangs, another caller can still start an operation on the same handle, and
\* that operation completes once its own promise is settled.
C19_CompletesOnlyOnSettlement ==
    /\ \A c \in Callers :
           (calls[c].st = "AwaitingHostCall" /\ promises[calls[c].promise] # Pending)
               ~> Done(c)
    /\ [][\A c \in Callers :
              (calls[c].st = "AwaitingHostCall" /\ promises'[calls[c].promise] = Pending)
              => calls'[c] = calls[c]]_vars
    /\ [](\A c, d \in Callers :
              (c # d /\ AwaitingPending(c) /\ calls[d] = Idle)
              => ENABLED get_info(d, Small))
    /\ \A c, d \in Callers :
           (/\ c # d
            /\ AwaitingPending(c)
            /\ calls[d].st = "AwaitingHostCall"
            /\ promises[calls[d].promise] # Pending)
               ~> Done(d)

\* the first caller's getInfo still hangs on its pending promise while the
\* second caller's sendPayment, issued later, has completed
C19_Witness ==
    /\ calls["a"].st = "AwaitingHostCall"
    /\ calls["a"].op = GET_INFO
    /\ calls["a"].issued = 1
    /\ promises[calls["a"].promise] = Pending
    /\ calls["b"].st = "Decoded"
    /\ calls["b"].op = SEND_PAYMENT
    /\ calls["b"].issued = 2

\* C20: sendMultiPayment never fails with EmptyInvoice, whatever list it is
\* given; its method being callable, it issues exactly one host call, whose
\* single argument is an array of the caller's strings, as many and in the same
\* order, empty strings included.
C20_MultiPaymentArgsVerbatim ==
    \A c \in Callers :
        (calls[c] # Idle /\ calls[c].op = SEND_MULTI_PAYMENT)
        => LET invoices == calls[c].arg
           IN /\ Done(c) => calls[c].outcome # Err(EmptyInvoice)
              /\ calls[c].issued = 0 =>
                     /\ calls[c].st = "Failed"
                     /\ calls[c].outcome = Err(NamespaceNotFound(SEND_MULTI_PAYMENT))
              /\ calls[c].issued > 0 =>
                     LET call == hostCalls[calls[c].issued]
                     IN /\ call.method = SEND_MULTI_PAYMENT
                        /\ Len(call.args) = 1
                        /\ call.args[1].kind = "array"
                        /\ Len(call.args[1].elems) = Len(invoices)
                        /\ \A i \in 1..Len(invoices) :
                               call.args[1].elems[i] = JsString(invoices[i])
              /\ Cardinality({i \in DOMAIN hostCalls :
                                  hostCalls[i].method = SEND_MULTI_PAYMENT}) = 1

\* the list <<"", "lnbc1">> reached the provider as the array ["", "lnbc1"]
C20_Witness ==
    /\ calls["a"].st = "Decoded"
    /\ calls["a"].op = SEND_MULTI_PAYMENT
    /\ calls["a"].arg = <<"", "lnbc1">>
    /\ hostCalls = <<[method |-> SEND_MULTI_PAYMENT,
                      args |-> <<JsArray(<<JsString(""), JsString("lnbc1")>>)>>,
                      ret |-> [type |-> "promise", id |-> 1]]>>

====
